---- MODULE Spec2Model ----
(***************************************************************************)
(* A model of pamenlarge (src/editor/pamenlarge.c): command-line parsing,  *)
(* dimension validation, the packed PBM path (enlargePbm and               *)
(* enlargePbmRowHorizontally) and the generic path (enlargeGeneral and     *)
(* makeOutputRowMap).                                                      *)
(*                                                                         *)
(* C arrays are functions on 0..n-1.  An `unsigned int` is kept as its     *)
(* 32-bit pattern read as a two's complement number, so that a pattern     *)
(* with the top bit set is a negative number here and stands for the       *)
(* unsigned value pattern + 2^32; UIntLess is the unsigned comparison.     *)
(***************************************************************************)
EXTENDS Integers, Sequences, FiniteSets, TLC

VARIABLES
    pc,           \* position in main() and in the enlarge routine it calls
    err,          \* the pm_error that ended the run, "" when none
    argv1,        \* argv[1], a sequence of characters; <<>> when argc-1 < 1
    scaleFactor,  \* cmdline.scaleFactor, a 32-bit pattern
    format,       \* inpam.format: "PBM" or "PGM" (any non-PBM type)
    width,        \* inpam.width
    height,       \* inpam.height
    inrow,        \* the packed input row buffer of enlargePbm
    outbuf,       \* the separately allocated packed output row (scaleFactor > 1)
    outrowP,      \* what the pointer outrow refers to: "inrow", "outbuf" or "null"
    row,          \* loop counter row of enlargePbm / enlargeGeneral
    i,            \* loop counter i of enlargePbm
    tuplerow,     \* the values of the tuples tuplerow[] points to
    newtuplerow,  \* enlargeGeneral's row of pointers into tuplerow[], or Uninit
    infile,       \* the rows read from the input so far, as the reader stored them
    outhdr,       \* the header written to stdout, <<>> before
    out           \* the rows written to stdout so far

vars == <<pc, err, argv1, scaleFactor, format, width, height, inrow, outbuf,
          outrowP, row, i, tuplerow, newtuplerow, infile, outhdr, out>>

-----------------------------------------------------------------------------
(* Bounds of the model. *)

MaxWidth == 9         \* widest image of a complete run (two packed bytes)
MaxHeight == 2        \* tallest image of a complete run
MaxFactor == 6        \* largest scale factor of a complete run
MaxRowBytes == 8      \* longest packed row handed to the row routine alone
MaxRowFactor == 9     \* the row routine alone is run with factors up to this, and 16, 17

-----------------------------------------------------------------------------
(* C integer arithmetic. *)

INT_MAX == 2147483647

Pow2(n) == 2^n

\* x >> n for a non-negative x
Shr(x, n) == x \div Pow2(n)

\* x & y for non-negative x, y, bit by bit
RECURSIVE BitAnd(_, _)
BitAnd(x, y) ==
    IF x = 0 \/ y = 0 THEN 0
    ELSE (x % 2) * (y % 2) + 2 * BitAnd(x \div 2, y \div 2)

\* the conversion of an int to unsigned char
ToUChar(x) == x % 256

MAX(a, b) == IF a > b THEN a ELSE b

\* a < b for two unsigned int patterns
UIntLess(a, b) == IF (a < 0) = (b < 0) THEN a < b ELSE b < 0

\* the four bytes of an unsigned int pattern, least significant first
UIntBytes(p) ==
    LET q == IF p < 0 THEN (p + 2147483647) + 1 ELSE p   \* the low 31 bits
        top == IF p < 0 THEN 128 ELSE 0
    IN  <<q % 256, (q \div 256) % 256, (q \div 65536) % 256, (q \div 16777216) + top>>

\* the unsigned int pattern of four bytes
BytesUInt(b) ==
    LET low == b[1] + 256 * b[2] + 65536 * b[3] IN
    IF b[4] >= 128 THEN ((low + 16777216 * (b[4] - 128)) - 2147483647) - 1
                   ELSE low + 16777216 * b[4]

\* the exact product of two unsigned ints: eight bytes, least significant first
\* (schoolbook multiplication: WideCarry is the total of column k, the sum of the
\* a[i]*b[j] with i+j = k and of the carry out of column k-1)
RECURSIVE WideCarry(_, _, _)
WideCarry(a, b, k) ==
    LET S == {x \in 1 .. 4 : (k + 2 - x) \in 1 .. 4}
        RECURSIVE Sum(_)
        Sum(T) == IF T = {} THEN 0
                  ELSE LET x == CHOOSE y \in T : TRUE
                       IN  a[x] * b[k + 2 - x] + Sum(T \ {x})
    IN  Sum(S) + (IF k = 0 THEN 0 ELSE WideCarry(a, b, k - 1) \div 256)
WideMul(x, y) == [k \in 1 .. 8 |-> WideCarry(UIntBytes(x), UIntBytes(y), k - 1) % 256]

\* x * y in unsigned int: the low 32 bits of the product (the product itself
\* when it needs no more than 31 bits)
UIntMul(x, y) ==
    IF x >= 0 /\ y >= 0 /\ (x = 0 \/ y <= INT_MAX \div x)
      THEN x * y
      ELSE BytesUInt(SubSeq(WideMul(x, y), 1, 4))

\* x + y in unsigned int, for y a small constant
UIntAdd(x, y) ==
    IF x >= 0 /\ x > INT_MAX - y THEN ((x - INT_MAX) + (y - 1)) + ((0 - INT_MAX) - 1)
    ELSE x + y

\* pbm_packed_bytes(cols): the bytes of a packed row of cols bits
pbm_packed_bytes(cols) == (cols + 7) \div 8

-----------------------------------------------------------------------------
(* The replication tables of enlargePbmRowHorizontally, indexed from 0. *)

Tab(t, k) == t[k + 1]

\* dbl with its last entry 0xFE for 0xFF
dbl_mut == <<0, 3, 12, 15, 48, 51, 60, 63,
             192, 195, 204, 207, 240, 243, 252, 254>>
dbl == <<0, 3, 12, 15, 48, 51, 60, 63,
         192, 195, 204, 207, 240, 243, 252, 255>>

trp1 == <<0, 3, 28, 31, 224, 227, 252, 255>>

trp2 == <<0, 1, 14, 15, 112, 113, 126, 127,
          128, 129, 142, 143, 240, 241, 254, 255>>

trp3 == <<0, 7, 56, 63, 192, 199, 248, 255>>

quin2 == <<0, 1, 62, 63, 192, 193, 254, 255>>

quin4 == <<0, 3, 124, 127, 128, 131, 252, 255>>

pair == <<0, 255, 65280, 65535>>

-----------------------------------------------------------------------------
(* enlargePbmRowHorizontally.  Each case gives the byte the loop stores at *)
(* index k of outrow; no loop stores twice at one index.                   *)

\* Byte2 with the two nibbles taken in the wrong order
Byte2_mut(in, k) ==
    LET b == in[k \div 2] IN
    IF k % 2 = 0 THEN Tab(dbl, BitAnd(b, 15))
                 ELSE Tab(dbl, Shr(BitAnd(b, 240), 4))

\* case 2: outrow[colChar*2], outrow[colChar*2+1]
Byte2(in, k) ==
    LET b == in[k \div 2] IN
    IF k % 2 = 0 THEN Tab(dbl, Shr(BitAnd(b, 240), 4))
                 ELSE Tab(dbl, BitAnd(b, 15))

\* case 3: outrow[colChar*3], [colChar*3+1], [colChar*3+2]
Byte3(in, k) ==
    LET b == in[k \div 3] IN
    CASE k % 3 = 0 -> Tab(trp1, Shr(BitAnd(b, 240), 5))
      [] k % 3 = 1 -> Tab(trp2, BitAnd(Shr(b, 2), 15))
      [] OTHER     -> Tab(trp3, BitAnd(b, 7))

\* case 5: outrow[colChar*5] .. outrow[colChar*5+4], each stored as unsigned char
Byte5(in, k) ==
    LET b == in[k \div 5] IN
    CASE k % 5 = 0 -> ToUChar(Shr(Tab(pair, BitAnd(Shr(b, 6), 3)), 5))
      [] k % 5 = 1 -> Tab(quin2, BitAnd(Shr(b, 4), 7))
      [] k % 5 = 2 -> ToUChar(Shr(Tab(pair, BitAnd(Shr(b, 3), 3)), 4))
      [] k % 5 = 3 -> Tab(quin4, BitAnd(Shr(b, 1), 7))
      [] OTHER     -> ToUChar(Shr(Tab(pair, BitAnd(b, 3)), 3))

\* case 4, default: mod, bit and offset of output byte colChar
GenMod(colChar, mult) == colChar % mult

\* GenBit rounding the quotient up
GenBit_mut(colChar, mult) == (GenMod(colChar, mult) * 8 + mult - 1) \div mult

GenBit(colChar, mult) == (GenMod(colChar, mult) * 8) \div mult

\* GenOffset counting the bits already used instead of the bits left
GenOffset_mut(colChar, mult) == (GenMod(colChar, mult) * 8) % mult

\* GenOffset reducing modulo 8 instead of modulo mult
GenOffset_mut2(colChar, mult) == mult - ((GenMod(colChar, mult) * 8) % 8)

GenOffset(colChar, mult) == mult - ((GenMod(colChar, mult) * 8) % mult)

\* the shift 6-bit of the two-bit branch is computed in unsigned int: with
\* bit > 6 it wraps and the shift is undefined
GenShiftUndefined(colChar, mult) ==
    GenOffset(colChar, mult) < 8 /\ GenBit(colChar, mult) > 6

\* ByteGen reading the pair of source bits one position too far left
ByteGen_mut(in, colChar, mult) ==
    LET b      == in[colChar \div mult]
        bit    == GenBit(colChar, mult)
        offset == GenOffset(colChar, mult)
    IN  IF offset >= 8
          THEN BitAnd(Shr(b, 7 - bit), 1) * 255
          ELSE BitAnd(ToUChar(Shr(Tab(pair, BitAnd(Shr(b, 7 - bit), 3)), offset)), 255)

\* case 4, default: outrow[colChar]
ByteGen(in, colChar, mult) ==
    LET b      == in[colChar \div mult]
        bit    == GenBit(colChar, mult)
        offset == GenOffset(colChar, mult)
    IN  IF offset >= 8
          THEN BitAnd(Shr(b, 7 - bit), 1) * 255
          ELSE BitAnd(ToUChar(Shr(Tab(pair, BitAnd(Shr(b, 6 - bit), 3)), offset)), 255)

\* WrittenIndices with the general loop ending one output byte early
WrittenIndices_mut(inColChars, outColChars, factor) ==
    CASE factor = 1 -> {}
      [] factor \in {2, 3, 5} -> 0 .. (inColChars * factor - 1)
      [] OTHER -> 0 .. (outColChars - 2)

\* the indices of outrow the routine stores at
WrittenIndices(inColChars, outColChars, factor) ==
    CASE factor = 1 -> {}
      [] factor \in {2, 3, 5} -> 0 .. (inColChars * factor - 1)
      [] OTHER -> 0 .. (outColChars - 1)

\* the indices of inrow the routine loads from
ReadIndices(inColChars, outColChars, factor) ==
    CASE factor = 1 -> {}
      [] factor \in {2, 3, 5} -> 0 .. (inColChars - 1)
      [] OTHER -> {c \div factor : c \in 0 .. (outColChars - 1)}

\* the routine leaves defined behaviour: a store outside outrow, a load outside
\* inrow, or an undefined shift
RowUndefined(in, inColChars, outColChars, factor, outrow) ==
    \/ \E k \in WrittenIndices(inColChars, outColChars, factor) : k \notin DOMAIN outrow
    \/ \E k \in ReadIndices(inColChars, outColChars, factor) : k \notin DOMAIN in
    \/ /\ factor \notin {1, 2, 3, 5}
       /\ \E c \in 0 .. (outColChars - 1) : GenShiftUndefined(c, factor)

\* the byte stored at index k
RowByte(in, k, factor) ==
    CASE factor = 2 -> Byte2(in, k)
      [] factor = 3 -> Byte3(in, k)
      [] factor = 5 -> Byte5(in, k)
      [] OTHER      -> ByteGen(in, k, factor)

\* outrow after the call; with factor 1 nothing is stored
enlargePbmRowHorizontally(in, inColChars, outColChars, factor, outrow) ==
    [k \in DOMAIN outrow |->
        IF k \in WrittenIndices(inColChars, outColChars, factor)
          THEN RowByte(in, k, factor)
          ELSE outrow[k]]

-----------------------------------------------------------------------------
(* The environment: command lines and input files the model draws from. *)

\* argv[1] of the runs, each a tuple of one-character strings
DigitChar(n) == <<"0", "1", "2", "3", "4", "5", "6", "7", "8", "9">>[n + 1]
ArgStrings ==
    { <<DigitChar(n)>> : n \in 0 .. MaxFactor } \cup
    { <<"-", "1">>, <<"-", "3">>, <<"a", "b">>, <<"2", "x">>, <<" ", "+", "3">>,
      <<"2", "1", "4", "7", "5">>,
      <<"2", "1", "4", "7", "4", "8", "3", "6", "4", "7">> }

\* bytes an input file supplies (0xB0, 0xFF, 0x5A) and the packed rows built
\* from them: byte k of sample s is ByteSamples[(s + k) mod 3]
ByteSamples == <<176, 255, 90>>
SampleRow(s, n) == [k \in 0 .. (n - 1) |-> ByteSamples[((s + k) % Len(ByteSamples)) + 1]]
FileRows(n) == {SampleRow(s, n) : s \in 0 .. (Len(ByteSamples) - 1)}

\* tuple values an input file of another format supplies, and its rows
PixelSamples == <<7, 0, 3>>
SampleTuples(s, n) ==
    [k \in 0 .. (n - 1) |-> PixelSamples[((s + k) % Len(PixelSamples)) + 1]]
FileTupleRows(n) == {SampleTuples(s, n) : s \in 0 .. (Len(PixelSamples) - 1)}

\* what malloc'd bytes may hold before they are first stored to
FillBytes == {85, 170}

\* a pointer of newtuplerow[] that was never assigned (no index of tuplerow[])
Uninit == -1

\* image dimensions a header may give
Widths == (1 .. MaxWidth) \cup {100000}
Heights == 1 .. MaxHeight

-----------------------------------------------------------------------------
(* main: parseCommandLine *)

IsDigit(c) == c \in {"0", "1", "2", "3", "4", "5", "6", "7", "8", "9"}
DigitVal(c) ==
    CASE c = "0" -> 0 [] c = "1" -> 1 [] c = "2" -> 2 [] c = "3" -> 3
      [] c = "4" -> 4 [] c = "5" -> 5 [] c = "6" -> 6 [] c = "7" -> 7
      [] c = "8" -> 8 [] OTHER -> 9

\* the digits at the head of s, accumulated onto acc
RECURSIVE AtoiDigits(_, _)
AtoiDigits(s, acc) ==
    IF s = <<>> \/ ~IsDigit(Head(s)) THEN acc
    ELSE AtoiDigits(Tail(s), acc * 10 + DigitVal(Head(s)))

\* atoi: white space, an optional sign, then digits up to the first other character
RECURSIVE atoi(_)
atoi(s) ==
    CASE s = <<>>       -> 0
      [] Head(s) = " "  -> atoi(Tail(s))
      [] Head(s) = "-"  -> 0 - AtoiDigits(Tail(s), 0)
      [] Head(s) = "+"  -> AtoiDigits(Tail(s), 0)
      [] OTHER          -> AtoiDigits(s, 0)

\* cmdlineP->scaleFactor = atoi(argv[1]): the int is stored in an unsigned int,
\* which keeps its 32-bit pattern
StoredScaleFactor(s) == atoi(s)

\* if (cmdlineP->scaleFactor < 1), an unsigned comparison
ScaleFactorRejected(sf) == UIntLess(sf, 1)

\* Fail reporting the error and returning to the caller instead of exiting
Fail_mut(kind) ==
    /\ pc' = pc
    /\ err' = kind

\* pm_error: the message is issued and the process exits
Fail(kind) ==
    /\ pc' = "error"
    /\ err' = kind

ParseCommandLine ==
    /\ pc = "parse"
    /\ IF argv1 = <<>>
         THEN /\ Fail("NoArgument")
              /\ UNCHANGED scaleFactor
         ELSE /\ scaleFactor' = StoredScaleFactor(argv1)
              /\ IF ScaleFactorRejected(scaleFactor')
                   THEN Fail("InvalidScaleFactor")
                   ELSE pc' = "open" /\ err' = err
    /\ UNCHANGED <<argv1, format, width, height, inrow, outbuf, outrowP, row, i,
                   tuplerow, newtuplerow, infile, outhdr, out>>

-----------------------------------------------------------------------------
(* main: pm_openr, pnm_readpaminit, validateComputableDimensions *)

OpenInput ==
    /\ pc = "open"
    /\ \/ pc' = "readinit" /\ err' = err
       \/ Fail("OpenError")
    /\ UNCHANGED <<argv1, scaleFactor, format, width, height, inrow, outbuf, outrowP,
                   row, i, tuplerow, newtuplerow, infile, outhdr, out>>

\* maxWidthHeight without the margin of 2
maxWidthHeight_mut == INT_MAX
maxWidthHeight == INT_MAX - 2

\* maxScaleFactor dividing by the smaller dimension instead of the larger
maxScaleFactor_mut(w, h) == maxWidthHeight \div (IF h < w THEN h ELSE w)

maxScaleFactor(w, h) == maxWidthHeight \div MAX(h, w)

\* if (scaleFactor > maxScaleFactor), an unsigned comparison
TooLarge(w, h, sf) == UIntLess(maxScaleFactor(w, h), sf)

\* the runs the model follows to their end: the factor is rejected, or the
\* image and the factor are within the bounds
WithinBounds(fmt, w, h, sf) ==
    \/ TooLarge(w, h, sf)
    \/ /\ w <= MaxWidth
       /\ h <= MaxHeight
       /\ sf <= MaxFactor

ReadPamInit ==
    /\ pc = "readinit"
    /\ \/ /\ \E fmt \in {"PBM", "PGM"}, w \in Widths, h \in Heights :
                /\ WithinBounds(fmt, w, h, scaleFactor)
                /\ format' = fmt
                /\ width' = w
                /\ height' = h
          /\ pc' = "validate"
          /\ err' = err
       \/ /\ Fail("FormatError")
          /\ UNCHANGED <<format, width, height>>
    /\ UNCHANGED <<argv1, scaleFactor, inrow, outbuf, outrowP, row, i, tuplerow,
                   newtuplerow, infile, outhdr, out>>

\* validateComputableDimensions called after the output header was written
validateComputableDimensions_mut ==
    /\ pc = "validate"
    /\ outhdr' = [format |-> format, width |-> 0, height |-> 0]
    /\ IF TooLarge(width, height, scaleFactor)
         THEN Fail("DimensionOverflow")
         ELSE pc' = "enlarge" /\ err' = err
    /\ UNCHANGED <<argv1, scaleFactor, format, width, height, inrow, outbuf, outrowP,
                   row, i, tuplerow, newtuplerow, infile, out>>

validateComputableDimensions ==
    /\ pc = "validate"
    /\ IF TooLarge(width, height, scaleFactor)
         THEN Fail("DimensionOverflow")
         ELSE pc' = "enlarge" /\ err' = err
    /\ UNCHANGED <<argv1, scaleFactor, format, width, height, inrow, outbuf, outrowP,
                   row, i, tuplerow, newtuplerow, infile, outhdr, out>>

-----------------------------------------------------------------------------
(* enlargePbm *)

outcols == UIntMul(width, scaleFactor)
outrows == UIntMul(height, scaleFactor)

\* inColChars counting a byte too many when the width is a multiple of 8
inColChars_mut == (width \div 8) + 1

inColChars == pbm_packed_bytes(width)
\* outColChars counting one byte more than the packed output row has
outColChars_mut == pbm_packed_bytes(outcols) + 1

outColChars == pbm_packed_bytes(outcols)

\* the row buffer the pointer outrow refers to
OutrowBuffer == IF outrowP = "inrow" THEN inrow ELSE outbuf

\* OutrowAlloc with a slack of 24 bits (three bytes) instead of 32
OutrowAlloc_mut == pbm_packed_bytes(UIntAdd(outcols, 24))

\* the size in bytes of the separately allocated output row
OutrowAlloc == pbm_packed_bytes(UIntAdd(outcols, 32))

\* up to pbm_writepbminit: the buffers are allocated, the header is written
EnlargePbmInit ==
    /\ pc = "enlarge"
    /\ format = "PBM"
    /\ \E f \in FillBytes : inrow' = [k \in 0 .. (inColChars - 1) |-> f]
    /\ IF scaleFactor = 1
         THEN outrowP' = "inrow" /\ outbuf' = outbuf
         ELSE /\ outrowP' = "outbuf"
              /\ \E f \in FillBytes : outbuf' = [k \in 0 .. (OutrowAlloc - 1) |-> f]
    /\ \/ /\ outhdr' = [format |-> "PBM", width |-> outcols, height |-> outrows]
          /\ row' = 0
          /\ pc' = "pbm_read"
          /\ err' = err
       \/ /\ Fail("WriteError")
          /\ UNCHANGED <<outhdr, row>>
    /\ UNCHANGED <<argv1, scaleFactor, format, width, height, i, tuplerow,
                   newtuplerow, infile, out>>

\* pbm_readpbmrow_packed: the next row of the file is stored in inrow
PbmReadRow ==
    /\ pc = "pbm_read"
    /\ row < height
    /\ \/ /\ \E r \in FileRows(inColChars) :
                /\ inrow' = r
                /\ infile' = Append(infile, r)
          /\ pc' = "pbm_transform"
          /\ err' = err
       \/ /\ Fail("TruncatedInput")
          /\ UNCHANGED <<inrow, infile>>
    /\ UNCHANGED <<argv1, scaleFactor, format, width, height, outbuf, outrowP, row, i,
                   tuplerow, newtuplerow, outhdr, out>>

\* CleanRow shifting by width % 8 instead of 8 - width % 8
CleanRow_mut(r, w) ==
    IF w % 8 > 0
      THEN LET last == pbm_packed_bytes(w) - 1
               n    == w % 8
           IN  [r EXCEPT ![last] = ToUChar(ToUChar(Shr(r[last], n)) * Pow2(n))]
      ELSE r

\* CleanRow without the test of width % 8: a full last byte is shifted by 8
CleanRow_mut2(r, w) ==
    LET last == pbm_packed_bytes(w) - 1
        n    == 8 - (w % 8)
    IN  [r EXCEPT ![last] = ToUChar(ToUChar(Shr(r[last], n)) * Pow2(n))]

\* clean final partial byte: >>= then <<= on an unsigned char
CleanRow(r, w) ==
    IF w % 8 > 0
      THEN LET last == pbm_packed_bytes(w) - 1
               n    == 8 - (w % 8)
           IN  [r EXCEPT ![last] = ToUChar(ToUChar(Shr(r[last], n)) * Pow2(n))]
      ELSE r

\* the clean-up of the final byte and the call of enlargePbmRowHorizontally
PbmTransform ==
    /\ pc = "pbm_transform"
    /\ LET cleaned == CleanRow(inrow, width) IN
       /\ inrow' = cleaned
       /\ IF RowUndefined(cleaned, inColChars, outColChars, scaleFactor,
                          IF outrowP = "inrow" THEN cleaned ELSE outbuf)
            THEN /\ pc' = "undefined"
                 /\ UNCHANGED <<outbuf, i>>
            ELSE /\ outbuf' = IF outrowP = "inrow" THEN outbuf
                              ELSE enlargePbmRowHorizontally(cleaned, inColChars,
                                       outColChars, scaleFactor, outbuf)
                 /\ i' = 0
                 /\ pc' = "pbm_write"
    /\ UNCHANGED <<err, argv1, scaleFactor, format, width, height, outrowP, row,
                   tuplerow, newtuplerow, infile, outhdr, out>>

\* what pbm_writepbmrow_packed(ofP, outrow, outcols, 0) takes from the buffer
PackedRowWritten(buf, cols) ==
    [cols |-> cols, data |-> [k \in 0 .. (pbm_packed_bytes(cols) - 1) |-> buf[k]]]

\* PbmWriteRow with the loop over i ending one pass early
PbmWriteRow_mut ==
    /\ pc = "pbm_write"
    /\ i < scaleFactor
    /\ \/ /\ out' = Append(out, PackedRowWritten(OutrowBuffer, outcols))
          /\ i' = i + 1
          /\ IF i + 2 < scaleFactor
               THEN pc' = "pbm_write" /\ row' = row
               ELSE pc' = "pbm_read" /\ row' = row + 1
          /\ err' = err
       \/ /\ Fail("WriteError")
          /\ UNCHANGED <<out, i, row>>
    /\ UNCHANGED <<argv1, scaleFactor, format, width, height, inrow, outbuf, outrowP,
                   tuplerow, newtuplerow, infile, outhdr>>

\* one pass of the loop over i: pbm_writepbmrow_packed, ++i, and ++row after the last
PbmWriteRow ==
    /\ pc = "pbm_write"
    /\ i < scaleFactor
    /\ \/ /\ out' = Append(out, PackedRowWritten(OutrowBuffer, outcols))
          /\ i' = i + 1
          /\ IF i + 1 < scaleFactor
               THEN pc' = "pbm_write" /\ row' = row
               ELSE pc' = "pbm_read" /\ row' = row + 1
          /\ err' = err
       \/ /\ Fail("WriteError")
          /\ UNCHANGED <<out, i, row>>
    /\ UNCHANGED <<argv1, scaleFactor, format, width, height, inrow, outbuf, outrowP,
                   tuplerow, newtuplerow, infile, outhdr>>

\* the loop over the rows has ended: the buffers are freed
EnlargePbmEnd ==
    /\ pc = "pbm_read"
    /\ ~(row < height)
    /\ outrowP' = "null"
    /\ pc' = "close"
    /\ UNCHANGED <<err, argv1, scaleFactor, format, width, height, inrow, outbuf, row, i,
                   tuplerow, newtuplerow, infile, outhdr, out>>

-----------------------------------------------------------------------------
(* enlargeGeneral and makeOutputRowMap *)

\* outpam.width and outpam.height
outpamWidth == UIntMul(width, scaleFactor)
outpamHeight == UIntMul(height, scaleFactor)

\* RowMapStores with the index col + subcol * width: interleaved, not stretched
RowMapStores_mut(outWidth, inWidth) ==
    LET sf == outWidth \div inWidth IN
    {<<col + subcol * inWidth, col>> : col \in 0 .. (inWidth - 1), subcol \in 0 .. (sf - 1)}

\* the stores newtuplerow[col * scaleFactor + subcol] = inTuplerow[col] of the two
\* loops, as pairs <<index, col>>; scaleFactor is outpamP->width / inpamP->width
RowMapStores(outWidth, inWidth) ==
    LET sf == outWidth \div inWidth IN
    {<<col * sf + subcol, col>> : col \in 0 .. (inWidth - 1), subcol \in 0 .. (sf - 1)}

\* makeOutputRowMap with the loop over col ending one column early
makeOutputRowMap_mut(outWidth, inWidth) ==
    LET S == {st \in RowMapStores(outWidth, inWidth) : st[2] < inWidth - 1} IN
    [j \in 0 .. (outWidth - 1) |->
        IF \E st \in S : st[1] = j
          THEN LET cs == {st[2] : st \in {x \in S : x[1] = j}}
               IN  CHOOSE c \in cs : \A d \in cs : d <= c
          ELSE Uninit]

\* the stores go in increasing col, so the last store at an index is the one
\* with the largest col; an index never stored at keeps what malloc left there
makeOutputRowMap(outWidth, inWidth) ==
    LET S == RowMapStores(outWidth, inWidth) IN
    [j \in 0 .. (outWidth - 1) |->
        IF \E st \in S : st[1] = j
          THEN LET cs == {st[2] : st \in {x \in S : x[1] = j}}
               IN  CHOOSE c \in cs : \A d \in cs : d <= c
          ELSE Uninit]

\* a store of makeOutputRowMap falls outside the array of outpamP->width pointers
RowMapUndefined(outWidth, inWidth) ==
    \E st \in RowMapStores(outWidth, inWidth) : st[1] >= outWidth

\* pnm_writepaminit, pnm_allocpamrow, makeOutputRowMap
EnlargeGeneralInit ==
    /\ pc = "enlarge"
    /\ format # "PBM"
    /\ \/ /\ outhdr' = [format |-> format, width |-> outpamWidth, height |-> outpamHeight]
          /\ \E r \in FileTupleRows(width) : tuplerow' = r
          /\ IF RowMapUndefined(outpamWidth, width)
               THEN pc' = "undefined" /\ newtuplerow' = newtuplerow
               ELSE /\ newtuplerow' = makeOutputRowMap(outpamWidth, width)
                    /\ pc' = "gen_read"
          /\ row' = 0
          /\ err' = err
       \/ /\ Fail("WriteError")
          /\ UNCHANGED <<outhdr, tuplerow, newtuplerow, row>>
    /\ UNCHANGED <<argv1, scaleFactor, format, width, height, inrow, outbuf, outrowP, i,
                   infile, out>>

\* pnm_readpamrow: the next row of the file is stored in the tuples of tuplerow
GenReadRow ==
    /\ pc = "gen_read"
    /\ row < height
    /\ \/ /\ \E r \in FileTupleRows(width) :
                /\ tuplerow' = r
                /\ infile' = Append(infile, r)
          /\ pc' = "gen_write"
          /\ err' = err
       \/ /\ Fail("TruncatedInput")
          /\ UNCHANGED <<tuplerow, infile>>
    /\ UNCHANGED <<argv1, scaleFactor, format, width, height, inrow, outbuf, outrowP,
                   row, i, newtuplerow, outhdr, out>>

\* the row pnm_writepamrowmult writes: the tuples the pointers refer to
TupleRowWritten(ptrs, tuples, cols) ==
    [cols |-> cols, data |-> [j \in 0 .. (cols - 1) |-> tuples[ptrs[j]]]]

Copies(x, n) == [k \in 1 .. n |-> x]

\* GenWriteRowMult asking for one row more than scaleFactor
GenWriteRowMult_mut ==
    /\ pc = "gen_write"
    /\ LET r == TupleRowWritten(newtuplerow, tuplerow, outpamWidth) IN
       /\ out' = out \o Copies(r, scaleFactor + 1)
       /\ row' = row + 1
       /\ pc' = "gen_read"
       /\ err' = err
    /\ UNCHANGED <<argv1, scaleFactor, format, width, height, inrow, outbuf, outrowP, i,
                   tuplerow, newtuplerow, infile, outhdr>>

\* pnm_writepamrowmult(&outpam, newtuplerow, scaleFactor) and ++row; a failing
\* write ends the run after some of the copies
GenWriteRowMult ==
    /\ pc = "gen_write"
    /\ IF \E j \in DOMAIN newtuplerow : newtuplerow[j] = Uninit
         THEN pc' = "undefined" /\ UNCHANGED <<err, out, row>>
         ELSE LET r == TupleRowWritten(newtuplerow, tuplerow, outpamWidth) IN
              \/ /\ out' = out \o Copies(r, scaleFactor)
                 /\ row' = row + 1
                 /\ pc' = "gen_read"
                 /\ err' = err
              \/ /\ \E n \in 0 .. (scaleFactor - 1) : out' = out \o Copies(r, n)
                 /\ Fail("WriteError")
                 /\ row' = row
    /\ UNCHANGED <<argv1, scaleFactor, format, width, height, inrow, outbuf, outrowP, i,
                   tuplerow, newtuplerow, infile, outhdr>>

\* the loop over the rows has ended: newtuplerow and tuplerow are freed
EnlargeGeneralEnd ==
    /\ pc = "gen_read"
    /\ ~(row < height)
    /\ pc' = "close"
    /\ UNCHANGED <<err, argv1, scaleFactor, format, width, height, inrow, outbuf, outrowP,
                   row, i, tuplerow, newtuplerow, infile, outhdr, out>>

-----------------------------------------------------------------------------
(* main *)

\* pm_close(ifP); pm_close(stdout); return 0
Close ==
    /\ pc = "close"
    /\ pc' = "done"
    /\ UNCHANGED <<err, argv1, scaleFactor, format, width, height, inrow, outbuf, outrowP,
                   row, i, tuplerow, newtuplerow, infile, outhdr, out>>

Init ==
    /\ pc = "parse"
    /\ err = ""
    /\ argv1 \in ArgStrings \cup {<<>>}
    /\ scaleFactor = 0
    /\ format = ""
    /\ width = 0
    /\ height = 0
    /\ inrow = <<>>
    /\ outbuf = <<>>
    /\ outrowP = "null"
    /\ row = 0
    /\ i = 0
    /\ tuplerow = <<>>
    /\ newtuplerow = <<>>
    /\ infile = <<>>
    /\ outhdr = <<>>
    /\ out = <<>>

Next ==
    \/ ParseCommandLine
    \/ OpenInput
    \/ ReadPamInit
    \/ validateComputableDimensions
    \/ EnlargePbmInit
    \/ PbmReadRow
    \/ PbmTransform
    \/ PbmWriteRow
    \/ EnlargePbmEnd
    \/ EnlargeGeneralInit
    \/ GenReadRow
    \/ GenWriteRowMult
    \/ EnlargeGeneralEnd
    \/ Close

Spec == Init /\ [][Next]_vars

\* main is one sequential thread: a step that can be taken is taken
SpecLive == Init /\ [][Next]_vars /\ WF_vars(Next)

-----------------------------------------------------------------------------
(* The row routine alone: enlargePbmRowHorizontally applied to the rows of *)
(* RowInputs, as enlargePbm calls it (final partial byte cleaned).         *)

RowFactors == (1 .. MaxRowFactor) \cup {16, 17}

\* every one-byte row, and the sample rows of two and more bytes
RowInputs(w) ==
    IF w <= 8
      THEN {[k \in {0} |-> v * Pow2(8 - w)] : v \in 0 .. (Pow2(w) - 1)}
      ELSE {CleanRow(r, w) : r \in FileRows(pbm_packed_bytes(w))}

RowInit ==
    /\ pc = "row_call"
    /\ err = ""
    /\ argv1 = <<>>
    /\ scaleFactor \in RowFactors
    /\ format = "PBM"
    /\ width \in 1 .. (8 * MaxRowBytes)
    /\ height = 1
    /\ inrow \in RowInputs(width)
    /\ IF scaleFactor = 1
         THEN outrowP = "inrow" /\ outbuf = <<>>
         ELSE /\ outrowP = "outbuf"
              /\ \E f \in FillBytes : outbuf = [k \in 0 .. (OutrowAlloc - 1) |-> f]
    /\ row = 0
    /\ i = 0
    /\ tuplerow = <<>>
    /\ newtuplerow = <<>>
    /\ infile = <<inrow>>
    /\ outhdr = <<>>
    /\ out = <<>>

EnlargeRow ==
    /\ pc = "row_call"
    /\ IF RowUndefined(inrow, inColChars, outColChars, scaleFactor, OutrowBuffer)
         THEN pc' = "undefined" /\ outbuf' = outbuf
         ELSE /\ outbuf' = IF outrowP = "inrow" THEN outbuf
                           ELSE enlargePbmRowHorizontally(inrow, inColChars, outColChars,
                                                          scaleFactor, outbuf)
              /\ pc' = "row_ret"
    /\ UNCHANGED <<err, argv1, scaleFactor, format, width, height, inrow, outrowP, row, i,
                   tuplerow, newtuplerow, infile, outhdr, out>>

RowNext == EnlargeRow

SpecRow == RowInit /\ [][RowNext]_vars

-----------------------------------------------------------------------------
(* validateComputableDimensions alone, on dimensions and factors up to the *)
(* largest an int and an unsigned int hold.                                *)

DimSamples ==
    {1, 2, 3, 7, 9, 10, 1000, 46340, 46341, 65535, 65536, 100000,
     1073741822, 1073741823, 2147483645, 2147483646, 2147483647}

\* unsigned int factors: small ones, ones next to the limit of each dimension,
\* and patterns with the top bit set (2^32 - 1, 2^32 - 3, 2^31 + 1)
FactorSamples(w, h) ==
    LET q == 2147483645 \div MAX(w, h) IN
    ({1, 2, 3, 21474, 21475, 2147483645, 2147483646, 2147483647, -1, -3, -2147483647}
       \cup {q - 1, q, q + 1}) \ {0}

DimInit ==
    /\ pc = "validate"
    /\ err = ""
    /\ argv1 = <<>>
    /\ width \in DimSamples
    /\ height \in DimSamples
    /\ scaleFactor \in FactorSamples(width, height)
    /\ format = "PBM"
    /\ inrow = <<>>
    /\ outbuf = <<>>
    /\ outrowP = "null"
    /\ row = 0
    /\ i = 0
    /\ tuplerow = <<>>
    /\ newtuplerow = <<>>
    /\ infile = <<>>
    /\ outhdr = <<>>
    /\ out = <<>>

DimNext == validateComputableDimensions

SpecDim == DimInit /\ [][DimNext]_vars

-----------------------------------------------------------------------------
(* Reference definitions the claims are stated with. *)

\* bit j of a packed row, most significant bit of byte 0 first
Bit(bytes, j) == Shr(bytes[j \div 8], 7 - (j % 8)) % 2

\* per-bit replication: output bit j is input bit floor(j / factor)
NaiveBit(in, j, factor) == Bit(in, j \div factor)

\* x <= y for two numbers given as bytes, least significant first
RECURSIVE WideLeq(_, _)
WideLeq(x, y) ==
    IF x = <<>> THEN TRUE
    ELSE LET n == Len(x) IN
         IF x[n] # y[n] THEN x[n] < y[n]
         ELSE WideLeq(SubSeq(x, 1, n - 1), SubSeq(y, 1, n - 1))

\* M = INT_MAX - 2 as eight bytes
WideM == <<253, 255, 255, 127, 0, 0, 0, 0>>

-----------------------------------------------------------------------------
(* C1 *)

\* C1: for every packed row of width 1..64 with cleared padding and every factor
\* in 1..5, the first width*factor bits the row routine produces equal the naive
\* reference: output bit j is input bit floor(j/factor); the call stays defined.
C1_TablesMatchNaive ==
    /\ pc # "undefined"
    /\ (pc = "row_ret" /\ scaleFactor \in 1 .. 5) =>
          \A j \in 0 .. (width * scaleFactor - 1) :
              Bit(OutrowBuffer, j) = NaiveBit(inrow, j, scaleFactor)

C1_Witness ==
    /\ pc = "row_ret"
    /\ scaleFactor = 5
    /\ width = 61
    /\ Bit(OutrowBuffer, 304) = 1
    /\ Bit(OutrowBuffer, 294) = 0

-----------------------------------------------------------------------------
(* C2 *)

\* C2: for factor 4 and every factor >= 6 of the model, each output byte c in
\* [0, ceil(width*factor/8)) the general formula stores is bit for bit the byte of
\* the per-bit replication of the packed input row.
C2_GeneralMatchesNaive ==
    /\ pc # "undefined"
    /\ (pc = "row_ret" /\ scaleFactor \notin {1, 2, 3, 5}) =>
          \A c \in 0 .. (pbm_packed_bytes(width * scaleFactor) - 1) :
              \A b \in 0 .. 7 :
                  Bit(outbuf, 8 * c + b) = NaiveBit(inrow, 8 * c + b, scaleFactor)

C2_Witness ==
    /\ pc = "row_ret"
    /\ scaleFactor = 7
    /\ width = 13
    /\ \E c \in 0 .. (outColChars - 1) :
          /\ GenOffset(c, scaleFactor) < 8
          /\ outbuf[c] \notin {0, 255}

-----------------------------------------------------------------------------
(* C3 *)

\* C3: on the generic path the header gives width*f and height*f, every row
\* written has width*f pixels, pixel (row i, column j) of the output is pixel
\* (floor(i/f), floor(j/f)) of the input, and a finished run has written height*f
\* rows; a 1x1 image enlarged by 4 is a 4x4 image of its one pixel value.
C3_GenericReplicates ==
    (format = "PGM" /\ outhdr # <<>>) =>
       /\ pc # "undefined"
       /\ outhdr.width = width * scaleFactor
       /\ outhdr.height = height * scaleFactor
       /\ \A k \in 0 .. (Len(out) - 1) :
             /\ out[k + 1].cols = width * scaleFactor
             /\ DOMAIN out[k + 1].data = 0 .. (width * scaleFactor - 1)
             /\ \A j \in 0 .. (width * scaleFactor - 1) :
                   out[k + 1].data[j] = infile[(k \div scaleFactor) + 1][j \div scaleFactor]
       /\ pc = "done" => Len(out) = height * scaleFactor
       /\ (pc = "done" /\ width = 1 /\ height = 1 /\ scaleFactor = 4) =>
             /\ Len(out) = 4
             /\ \A k \in 1 .. 4 : \A j \in 0 .. 3 : out[k].data[j] = infile[1][0]

C3_Witness ==
    /\ pc = "done"
    /\ format = "PGM"
    /\ width = 3
    /\ height = 2
    /\ scaleFactor = 4
    /\ out[1].data[3] # out[1].data[4]
    /\ out[4].data # out[5].data

-----------------------------------------------------------------------------
(* C4 *)

\* C4: validateComputableDimensions accepts width, height >= 1 and factor >= 1
\* iff factor * max(width, height) <= M = INT_MAX - 2, the product taken exactly;
\* factor = floor(M / max) >= 1 is accepted and floor(M / max) + 1 is rejected.
C4_AcceptsIffProductFits ==
    (pc \in {"enlarge", "error"}) =>
       LET m == MAX(width, height) IN
       /\ (pc = "enlarge") <=> WideLeq(WideMul(scaleFactor, m), WideM)
       /\ (pc = "error") <=> (err = "DimensionOverflow")
       /\ scaleFactor = 2147483645 \div m => pc = "enlarge"
       /\ scaleFactor = (2147483645 \div m) + 1 => pc = "error"

C4_Witness ==
    /\ pc = "enlarge"
    /\ width = 100000
    /\ height = 46341
    /\ scaleFactor = 21474

-----------------------------------------------------------------------------
(* C5 *)

HeaderRead == width >= 1

BeforeValidation == pc \in {"parse", "open", "readinit", "validate"}

\* C5: validation comes after the input header is read and before anything is
\* written: at the validation step the header is read and the output is empty,
\* output exists only for a validated factor, and a run whose factor times
\* max(width, height) exceeds M is, once past the validation step, in the
\* DimensionOverflow error state with no header and no row written.
C5_ValidateBeforeOutput ==
    /\ pc = "validate" => (HeaderRead /\ outhdr = <<>> /\ out = <<>>)
    /\ (outhdr # <<>> \/ out # <<>>) =>
          /\ ~BeforeValidation
          /\ HeaderRead
          /\ WideLeq(WideMul(scaleFactor, MAX(width, height)), WideM)
    /\ (HeaderRead /\ ~BeforeValidation
          /\ ~WideLeq(WideMul(scaleFactor, MAX(width, height)), WideM)) =>
          (pc = "error" /\ err = "DimensionOverflow" /\ outhdr = <<>> /\ out = <<>>)
    /\ err = "DimensionOverflow" => (pc = "error" /\ outhdr = <<>> /\ out = <<>>)

C5_Witness ==
    /\ pc = "error"
    /\ err = "DimensionOverflow"
    /\ width = 100000
    /\ height = 1
    /\ scaleFactor = 21475
    /\ outhdr = <<>>
    /\ out = <<>>

-----------------------------------------------------------------------------
(* C6 *)

\* the row the writer must be handed for input row r (as read from the file)
ExpectedRow(r) ==
    IF format = "PBM"
      THEN [j \in 0 .. (width * scaleFactor - 1) |-> NaiveBit(r, j, scaleFactor)]
      ELSE [j \in 0 .. (width * scaleFactor - 1) |-> r[j \div scaleFactor]]

\* what a written row holds in its columns
WrittenColumns(w) ==
    IF format = "PBM"
      THEN [j \in 0 .. (w.cols - 1) |-> Bit(w.data, j)]
      ELSE w.data

\* C6: on both paths every row written is, for its source row r = floor(k/f),
\* the horizontally enlarged input row r, and the f rows written for one source
\* row are identical in every byte handed to the writer.
C6_VerticalReplication ==
    /\ pc # "undefined"
    /\ \A k \in 0 .. (Len(out) - 1) :
          LET r == k \div scaleFactor IN
          /\ r + 1 <= Len(infile)
          /\ WrittenColumns(out[k + 1]) = ExpectedRow(infile[r + 1])
          /\ out[k + 1] = out[r * scaleFactor + 1]

C6_Witness ==
    /\ pc = "done"
    /\ format = "PBM"
    /\ width = 9
    /\ height = 2
    /\ scaleFactor = 3
    /\ out[3] # out[4]

-----------------------------------------------------------------------------
(* C7 *)

InLoop == pc \in {"pbm_read", "pbm_transform", "pbm_write", "gen_read", "gen_write"}

\* the steps of the one forward pass
ForwardStep(p, q) ==
    \/ q \in {"error", "undefined"}
    \/ <<p, q>> \in
         { <<"parse", "open">>, <<"open", "readinit">>, <<"readinit", "validate">>,
           <<"validate", "enlarge">>, <<"enlarge", "pbm_read">>,
           <<"enlarge", "gen_read">>, <<"pbm_read", "pbm_transform">>,
           <<"pbm_transform", "pbm_write">>, <<"pbm_write", "pbm_write">>,
           <<"pbm_write", "pbm_read">>, <<"gen_read", "gen_write">>,
           <<"gen_write", "gen_read">>, <<"pbm_read", "close">>,
           <<"gen_read", "close">>, <<"close", "done">> }

IsPrefix(a, b) == Len(a) <= Len(b) /\ SubSeq(b, 1, Len(a)) = a

C7_Counts ==
    /\ pc # "undefined"
    /\ out # <<>> => outhdr # <<>>
    /\ Len(infile) <= height
    /\ Len(out) <= Len(infile) * scaleFactor
    /\ infile # <<>> => Len(out) >= (Len(infile) - 1) * scaleFactor
    /\ pc \in {"pbm_read", "gen_read"} =>
          (Len(infile) = row /\ Len(out) = row * scaleFactor)
    /\ pc \in {"pbm_transform", "gen_write"} =>
          (Len(infile) = row + 1 /\ Len(out) = row * scaleFactor)
    /\ pc = "pbm_write" =>
          (Len(infile) = row + 1 /\ i < scaleFactor /\ Len(out) = row * scaleFactor + i)
    /\ pc \in {"close", "done"} =>
          (Len(infile) = height /\ Len(out) = height * scaleFactor)

C7_Steps ==
    /\ ForwardStep(pc, pc')
    /\ outhdr # <<>> => outhdr' = outhdr
    /\ outhdr' # outhdr => (pc = "enlarge" /\ out = <<>> /\ infile = <<>>)
    /\ IsPrefix(infile, infile')
    /\ IsPrefix(out, out')
    /\ infile' # infile =>
          /\ Len(infile') = Len(infile) + 1
          /\ Len(out) = Len(infile) * scaleFactor
          /\ out' = out
    /\ (out' # out /\ pc' # "error") =>
          /\ infile' = infile
          /\ Len(out') \in {Len(out) + 1, Len(infile) * scaleFactor}

\* C7: the run is one forward pass parse, open, header, validate, then per row
\* read, transform, factor writes, then done: the header is written once and
\* before any row, rows are read one at a time, each read comes when exactly
\* factor rows were written for every earlier row, and a finished run has read
\* height rows and written height*factor rows.
C7_ForwardPass == [](C7_Counts) /\ [][C7_Steps]_vars

C7_Witness ==
    /\ pc = "done"
    /\ format = "PBM"
    /\ height = 2
    /\ scaleFactor = 3
    /\ Len(infile) = 2
    /\ Len(out) = 6

-----------------------------------------------------------------------------
(* C8 *)

\* C8: with factor 1 the output header has the input's dimensions, and row k of
\* the output holds in each of its width columns what row k of the input held;
\* on the packed path the output row is the input row buffer itself and no
\* other buffer is allocated.
C8_FactorOneIdentity ==
    (scaleFactor = 1 /\ outhdr # <<>>) =>
       /\ outhdr.width = width
       /\ outhdr.height = height
       /\ \A k \in 1 .. Len(out) :
             /\ out[k].cols = width
             /\ k <= Len(infile)
             /\ IF format = "PBM"
                  THEN \A j \in 0 .. (width - 1) : Bit(out[k].data, j) = Bit(infile[k], j)
                  ELSE out[k].data = infile[k]
       /\ (format = "PBM" /\ InLoop) => (outrowP = "inrow" /\ outbuf = <<>>)
       /\ (format = "PBM" /\ pc = "pbm_write") =>
             \A j \in 0 .. (width - 1) : Bit(inrow, j) = Bit(infile[row + 1], j)
       /\ pc = "done" => Len(out) = height

C8_Witness ==
    /\ pc = "done"
    /\ format = "PBM"
    /\ scaleFactor = 1
    /\ width = 9
    /\ height = 2
    /\ out[1].data[0] = 176
    /\ out[2].data[0] = 255

-----------------------------------------------------------------------------
(* C9 *)

\* C9 as claimed: the 8-pixel row 10110000 enlarged by 2 is the 16-bit row
\* 1100110000000000.
C9_Original ==
    (pc = "row_ret" /\ width = 8 /\ scaleFactor = 2 /\ inrow = [k \in {0} |-> 176]) =>
       [j \in 0 .. 15 |-> Bit(outbuf, j)] =
          [j \in 0 .. 15 |-> <<1, 1, 0, 0, 1, 1, 0, 0, 0, 0, 0, 0, 0, 0, 0, 0>>[j + 1]]

\* C9 amended: the 8-pixel row 10110000 enlarged by 2 is the 16-bit row
\* 1100111100000000 (each of the bits 1,0,1,1,0,0,0,0 twice).
C9_Amended ==
    (pc = "row_ret" /\ width = 8 /\ scaleFactor = 2 /\ inrow = [k \in {0} |-> 176]) =>
       [j \in 0 .. 15 |-> Bit(outbuf, j)] =
          [j \in 0 .. 15 |-> <<1, 1, 0, 0, 1, 1, 1, 1, 0, 0, 0, 0, 0, 0, 0, 0>>[j + 1]]

C9_Witness ==
    /\ pc = "row_ret"
    /\ width = 8
    /\ scaleFactor = 2
    /\ inrow = [k \in {0} |-> 176]
    /\ outbuf[0] = 207
    /\ outbuf[1] = 0

-----------------------------------------------------------------------------
(* C10 *)

\* C10: an argument whose integer value is less than 1 is rejected by
\* parseCommandLine with the invalid-scale-factor error: past the parse step
\* the run is in that error state, the input never opened, no header read.
C10_SmallFactorRejectedAtParse ==
    (argv1 # <<>> /\ atoi(argv1) < 1 /\ pc # "parse") =>
       (pc = "error" /\ err = "InvalidScaleFactor" /\ ~HeaderRead)

-----------------------------------------------------------------------------
(* C11 *)

Ended == pc \in {"done", "error"}

C11_States ==
    /\ pc # "undefined"
    /\ (pc = "error") <=> (err # "")
    /\ pc = "done" =>
          /\ outhdr # <<>>
          /\ Len(infile) = height
          /\ Len(out) = height * scaleFactor

C11_Steps ==
    /\ Ended => UNCHANGED vars
    /\ err' # err => (err = "" /\ pc' = "error")
    /\ pc' = "error" => (infile' = infile /\ IsPrefix(out, out') /\ outhdr' = outhdr)

\* C11: a failed header read, row read or row write (like every pm_error) puts
\* the run in the error state, where no further step is taken: nothing is read,
\* transformed, written or retried; done is reached only with the whole image
\* written; and every run eventually is done or in the error state.
C11_FatalAndTerminal == [](C11_States) /\ [][C11_Steps]_vars /\ <>Ended

C11_Witness ==
    /\ pc = "error"
    /\ err = "WriteError"
    /\ format = "PBM"
    /\ height = 2
    /\ Len(infile) = 2
    /\ Len(out) = scaleFactor + 1

-----------------------------------------------------------------------------
(* C12 *)

\* the bytes of the output row the routine has stored to: no table entry and
\* no byte of the general formula is one of the values malloc's bytes hold
Stored(k) == outbuf[k] \notin FillBytes

\* C12 as stated: the routines for the factors 2, 3 and 5 store at no index
\* above ceil(width*factor/8), one byte past the exact packed length.
C12_Original ==
    (pc = "row_ret" /\ scaleFactor \in {2, 3, 5}) =>
        \A k \in DOMAIN outbuf : Stored(k) => k <= outColChars

\* C12: the routines for the factors 2, 3 and 5 stay in defined behaviour and
\* store at no index above ceil(width*factor/8) + factor - 2, which is factor - 1
\* bytes past the exact packed length: 1, 2 and 4 bytes for 2, 3 and 5.
C12_Amended ==
    /\ pc # "undefined"
    /\ (pc = "row_ret" /\ scaleFactor \in {2, 3, 5}) =>
          \A k \in DOMAIN outbuf : Stored(k) => k <= outColChars + scaleFactor - 2

C12_Witness ==
    /\ pc = "row_ret"
    /\ scaleFactor = 5
    /\ width = 1
    /\ outColChars = 1
    /\ Stored(4)

-----------------------------------------------------------------------------
(* C13 *)

\* the bytes stored at index k and below reach this many bytes past the exact
\* packed length of the output row
Overrun(k) == (k + 1) - outColChars

\* C13: with a factor of 2 or more the routine stays in defined behaviour; every
\* index it stores at is below ceil((width*factor + 32)/8), the size enlargePbm
\* allocates; it stores at most 4 bytes past ceil(width*factor/8), and 4 only
\* with factor 5.
C13_WritesWithinAllocation ==
    /\ pc # "undefined"
    /\ scaleFactor >= 2 =>
          /\ DOMAIN outbuf = 0 .. (pbm_packed_bytes(width * scaleFactor + 32) - 1)
          /\ \A k \in WrittenIndices(inColChars, outColChars, scaleFactor) :
                /\ k < pbm_packed_bytes(width * scaleFactor + 32)
                /\ Overrun(k) <= 4
                /\ Overrun(k) = 4 => scaleFactor = 5
          /\ pc = "row_ret" =>
                \A k \in DOMAIN outbuf :
                    Stored(k) <=> k \in WrittenIndices(inColChars, outColChars, scaleFactor)

C13_Witness ==
    /\ pc = "row_ret"
    /\ scaleFactor = 5
    /\ width = 9
    /\ Overrun(9) = 4
    /\ Stored(9)
    /\ DOMAIN outbuf = 0 .. 9

-----------------------------------------------------------------------------
(* C14 *)

\* the factors that have a path of their own in the switch
Dedicated == {1, 2, 3, 5}

\* the general formula and the dedicated path give the same output byte c
SameByte(c) == ByteGen(inrow, c, scaleFactor) = OutrowBuffer[c]

\* C14 as stated: with the factors 1, 2, 3 and 5 the general formula gives the
\* bits of the output row that the dedicated path gives.
C14_Original ==
    (pc = "row_ret" /\ scaleFactor \in Dedicated) =>
        \A j \in 0 .. (width * scaleFactor - 1) :
            Shr(ByteGen(inrow, j \div 8, scaleFactor), 7 - (j % 8)) % 2 = Bit(OutrowBuffer, j)

\* C14: with the factors 1, 2, 3 and 5 the general formula gives the byte of the
\* dedicated path in the output bytes where offset + factor >= 8; these are no
\* byte with the factors 1, 2 and 3 and the bytes of index 0, 2, 4 mod 5 with
\* factor 5; elsewhere it looks at two source bits only and can differ: the row
\* 10100000 doubled starts with the byte 11001100, the formula gives 11000000.
C14_Amended ==
    (pc = "row_ret" /\ scaleFactor \in Dedicated) =>
        /\ \A c \in 0 .. (outColChars - 1) :
              /\ ~GenShiftUndefined(c, scaleFactor)
              /\ (GenOffset(c, scaleFactor) + scaleFactor >= 8) <=>
                     (scaleFactor = 5 /\ c % 5 \in {0, 2, 4})
              /\ GenOffset(c, scaleFactor) + scaleFactor >= 8 => SameByte(c)
        /\ (scaleFactor = 2 /\ width = 8 /\ inrow[0] = 160) =>
              (OutrowBuffer[0] = 204 /\ ByteGen(inrow, 0, 2) = 192)

C14_Witness ==
    /\ pc = "row_ret"
    /\ scaleFactor = 5
    /\ width = 13
    /\ OutrowBuffer[4] \notin {0, 255}
    /\ SameByte(4)
    /\ ~SameByte(3)

-----------------------------------------------------------------------------
(* C15 *)

\* the map has been built
MapBuilt == newtuplerow # <<>>

C15_Map ==
    /\ pc \in {"gen_read", "gen_write"} => MapBuilt
    /\ MapBuilt =>
          /\ DOMAIN newtuplerow = 0 .. (width * scaleFactor - 1)
          /\ \A j \in DOMAIN newtuplerow : newtuplerow[j] = j \div scaleFactor
          /\ \A c \in 0 .. (width - 1) :
                {j \in DOMAIN newtuplerow : newtuplerow[j] = c} =
                    (c * scaleFactor) .. (c * scaleFactor + scaleFactor - 1)
    /\ (pc = "gen_read" /\ row = 0) =>
          /\ outpamWidth \div width = scaleFactor
          /\ ~RowMapUndefined(outpamWidth, width)
          /\ \A j \in DOMAIN newtuplerow :
                Cardinality({st \in RowMapStores(outpamWidth, width) : st[1] = j}) = 1

C15_Built ==
    newtuplerow' # newtuplerow =>
        /\ pc = "enlarge"
        /\ newtuplerow = <<>>
        /\ infile = <<>>
        /\ out = <<>>

\* C15: makeOutputRowMap stores once at every output column j of 0 .. w*f-1
\* and nowhere else, column j refers to input column floor(j/f), so that input
\* column c is referred to by the columns c*f .. c*f+f-1; the map is there
\* before the first row is read and no later step changes it.
C15_ColumnMap == [](C15_Map) /\ [][C15_Built]_vars

C15_Witness ==
    /\ pc = "gen_write"
    /\ width = 3
    /\ scaleFactor = 4
    /\ Len(infile) = 2
    /\ newtuplerow[7] = 1
    /\ newtuplerow[8] = 2
    /\ newtuplerow[11] = 2

-----------------------------------------------------------------------------
(* C16 *)

\* the row enlargePbmRowHorizontally was called with, against the row read
C16_Clean ==
    (format = "PBM" /\ pc = "pbm_write") =>
        /\ DOMAIN inrow = 0 .. (inColChars - 1)
        /\ \A j \in width .. (8 * inColChars - 1) : Bit(inrow, j) = 0
        /\ \A j \in 0 .. (width - 1) : Bit(inrow, j) = Bit(infile[row + 1], j)
        /\ width % 8 = 0 => inrow = infile[row + 1]

\* the step that cleans the row and calls enlargePbmRowHorizontally
C16_Untouched ==
    (pc = "pbm_transform" /\ width % 8 = 0) => inrow' = inrow

\* C16: at every call of enlargePbmRowHorizontally the bits of the last input
\* byte from position width on are 0 and the first width bits are those read;
\* with a width that is a multiple of 8 the row is as it was read.
C16_PaddingCleared == [](C16_Clean) /\ [][C16_Untouched]_vars

C16_Witness ==
    /\ pc = "pbm_write"
    /\ format = "PBM"
    /\ width = 3
    /\ infile[row + 1][0] = 255
    /\ inrow[0] = 224

-----------------------------------------------------------------------------
(* C17 *)

\* offset of output byte c as the claim gives it, and the source bit that the
\* first bit of output byte c replicates
ClaimOffset(c) == scaleFactor - (((c % scaleFactor) * 8) % scaleFactor)
FirstSource(c) == (8 * c) \div scaleFactor

\* the positions b of output byte c where bit b and bit b+1 differ
ColourChanges(c) == {b \in 0 .. 6 : Bit(outbuf, 8 * c + b) # Bit(outbuf, 8 * c + b + 1)}

\* C17: in the general path every output byte c has offset + factor >= 8; with
\* offset >= 8 all its bits are one source bit, with offset < 8 its first
\* offset bits are one source bit and the others the next source bit, so the
\* colour changes at most once inside the byte.
C17_OneChangePerByte ==
    /\ pc # "undefined"
    /\ scaleFactor \notin Dedicated =>
          \A c \in 0 .. (outColChars - 1) :
              /\ ClaimOffset(c) + scaleFactor >= 8
              /\ pc = "row_ret" =>
                    /\ \A b \in 0 .. 7 :
                          Bit(outbuf, 8 * c + b) =
                              Bit(inrow, IF b < ClaimOffset(c) THEN FirstSource(c)
                                                               ELSE FirstSource(c) + 1)
                    /\ Cardinality(ColourChanges(c)) <= 1
                    /\ ClaimOffset(c) >= 8 => outbuf[c] \in {0, 255}

C17_Witness ==
    /\ pc = "row_ret"
    /\ scaleFactor = 9
    /\ \E c \in 0 .. (outColChars - 1) : ClaimOffset(c) = 1 /\ outbuf[c] = 127
    /\ \E c \in 0 .. (outColChars - 1) : ClaimOffset(c) = 6 /\ outbuf[c] = 3
    /\ \E c \in 0 .. (outColChars - 1) : ClaimOffset(c) >= 8 /\ outbuf[c] = 255

-----------------------------------------------------------------------------
(* C18 *)

\* byte c of the packed output row for the input row r, from r alone: bit j
\* is bit floor(j/f) of r up to the output width and 0 from there on
OwnBit(r, j) == IF j < width * scaleFactor THEN Bit(r, j \div scaleFactor) ELSE 0
OwnByte(r, c) ==
    128 * OwnBit(r, 8 * c) + 64 * OwnBit(r, 8 * c + 1) + 32 * OwnBit(r, 8 * c + 2)
      + 16 * OwnBit(r, 8 * c + 3) + 8 * OwnBit(r, 8 * c + 4) + 4 * OwnBit(r, 8 * c + 5)
      + 2 * OwnBit(r, 8 * c + 6) + OwnBit(r, 8 * c + 7)

\* C18: on the packed path with a factor of 2 or more, after the transform of
\* row r every one of the ceil(width*factor/8) bytes the writer is handed has
\* been stored to by that transform and is a function of row r (and width and
\* factor) alone, whatever the buffer held from the row before; so are all the
\* rows written.
C18_RowsIndependent ==
    (format = "PBM" /\ scaleFactor >= 2) =>
        /\ pc # "undefined"
        /\ pc = "pbm_write" =>
              \A c \in 0 .. (outColChars - 1) :
                  /\ c \in WrittenIndices(inColChars, outColChars, scaleFactor)
                  /\ outbuf[c] = OwnByte(infile[row + 1], c)
        /\ \A k \in 0 .. (Len(out) - 1) :
              out[k + 1].data =
                  [c \in 0 .. (outColChars - 1) |->
                      OwnByte(infile[(k \div scaleFactor) + 1], c)]

C18_Witness ==
    /\ pc = "done"
    /\ format = "PBM"
    /\ width = 9
    /\ height = 2
    /\ scaleFactor = 4
    /\ infile[1] # infile[2]
    /\ out[4].data[4] # out[5].data[4]

-----------------------------------------------------------------------------
(* C19 *)

\* the output byte indices examined: one full period of c mod factor, and
\* every byte of the row
ByteIndices == 0 .. (MAX(scaleFactor, outColChars) - 1)

\* C19: for every factor and every output byte index c, bit is
\* floor((c mod factor)*8 / factor); where the two-bit branch is taken
\* (offset < 8) bit is at most 6, so the shift 6 - bit is not negative and the
\* two bits consulted, bit and bit + 1, are in one input byte; bit = 7 occurs
\* only with offset >= 8.
C19_TwoBitBranchInByte ==
    /\ pc # "undefined"
    /\ \A c \in ByteIndices :
          /\ GenBit(c, scaleFactor) = ((c % scaleFactor) * 8) \div scaleFactor
          /\ GenBit(c, scaleFactor) \in 0 .. 7
          /\ GenOffset(c, scaleFactor) < 8 =>
                /\ GenBit(c, scaleFactor) <= 6
                /\ 6 - GenBit(c, scaleFactor) >= 0
                /\ GenBit(c, scaleFactor) + 1 <= 7
          /\ GenBit(c, scaleFactor) = 7 => GenOffset(c, scaleFactor) >= 8
          /\ ~GenShiftUndefined(c, scaleFactor)

C19_Witness ==
    /\ pc = "row_ret"
    /\ scaleFactor = 9
    /\ width = 9
    /\ GenBit(8, 9) = 7 /\ GenOffset(8, 9) = 8 /\ outbuf[8] = 0
    /\ GenBit(7, 9) = 6 /\ GenOffset(7, 9) = 7 /\ outbuf[7] = 254

-----------------------------------------------------------------------------
(* C20 *)

\* C20: for every output byte index c below ceil(width*factor/8) the input
\* byte index floor(c/factor) the general formula reads is below ceil(width/8);
\* the general path loads from no index outside the input row.
C20_ReadsInsideInputRow ==
    /\ pc # "undefined"
    /\ \A c \in 0 .. (outColChars - 1) : c \div scaleFactor < pbm_packed_bytes(width)
    /\ scaleFactor \notin Dedicated =>
          /\ ReadIndices(inColChars, outColChars, scaleFactor) \subseteq DOMAIN inrow
          /\ DOMAIN inrow = 0 .. (pbm_packed_bytes(width) - 1)

C20_Witness ==
    /\ pc = "row_ret"
    /\ scaleFactor = 4
    /\ width = 61
    /\ outColChars = 31
    /\ 30 \div scaleFactor = pbm_packed_bytes(width) - 1
    /\ Stored(30)
    /\ outbuf[30] = 240

-----------------------------------------------------------------------------
(* C21 *)

\* x * y and x + y do not wrap in unsigned int: the exact product has nothing
\* above its low four bytes, the sum is not below its first operand
NoWrapMul(x, y) == SubSeq(WideMul(x, y), 5, 8) = <<0, 0, 0, 0>>
NoWrapAdd(x, y) == ~UIntLess(UIntAdd(x, y), x)

\* ceil(n/8) for n up to INT_MAX
CeilDiv8(n) == (n \div 8) + (IF n % 8 > 0 THEN 1 ELSE 0)

\* output byte indices c below ceil(width*factor/8), among them the ones with
\* the largest c mod factor: factor - 1 if the row has that many bytes, else
\* the last byte of the row
ByteIndexSamples ==
    {c \in {0, 1, scaleFactor - 1, scaleFactor, CeilDiv8(outcols) - 1} :
        c >= 0 /\ c < CeilDiv8(outcols)}

\* C21: for an accepted width, height and factor the products width*factor and
\* height*factor, the sum width*factor + 32 and, for the output byte indices c
\* below ceil(width*factor/8), the product (c mod factor)*8 are all the exact
\* values: nothing wraps modulo 2^32.
C21_NoWrapAfterValidation ==
    pc = "enlarge" =>
        /\ NoWrapMul(width, scaleFactor)
        /\ NoWrapMul(height, scaleFactor)
        /\ outcols >= 0 /\ outcols <= INT_MAX - 2
        /\ outrows >= 0 /\ outrows <= INT_MAX - 2
        /\ NoWrapAdd(outcols, 32)
        /\ \A c \in ByteIndexSamples :
              /\ GenMod(c, scaleFactor) <= CeilDiv8(outcols) - 1
              /\ NoWrapMul(GenMod(c, scaleFactor), 8)

C21_Witness ==
    /\ pc = "enlarge"
    /\ width = 1073741822
    /\ height = 3
    /\ scaleFactor = 2
    /\ outcols = 2147483644
    /\ UIntAdd(outcols, 32) < 0
    /\ NoWrapMul(GenMod(CeilDiv8(outcols) - 1, scaleFactor), 8)

====
